---- MODULE Spec2Model ----
(***************************************************************************)
(* MetriClock: the dual-clock timekeeping core of src/metriClock.cpp.      *)
(*                                                                         *)
(* Number representation.  The target is an 8-bit AVR Arduino: int is 16   *)
(* bits, long and unsigned long are 32 bits.  A 32-bit object is stored as *)
(* the two's-complement reading of its bit pattern, a value in             *)
(* MinLong..MaxLong; an unsigned long u >= 2^31 is therefore stored as     *)
(* u - 2^32.  Addition and subtraction modulo 2^32 are AddUL and SubUL.    *)
(*                                                                         *)
(* Time.  millis() is the hardware millisecond counter.  One iteration of  *)
(* loop() is one action; every millis() call of one iteration returns the  *)
(* same value ms, and the time that passes between two iterations is the   *)
(* input d of the action.                                                  *)
(***************************************************************************)
EXTENDS Integers, Sequences, FiniteSets, TLC

\* ------------------------------------------------------------------ widths
MaxLong == 2147483647
MinLong == (-MaxLong) - 1
IntModulus == 65536
IntHalf == 32768

\* a + d modulo 2^32, for 0 <= d <= MaxLong
AddUL(a, d) ==
    IF a > MaxLong - d THEN (a + MinLong) + (d + MinLong) ELSE a + d

\* a - b modulo 2^32; the bit pattern is the one `long x = a - b` stores
SubUL(a, b) ==
    IF b >= 0
    THEN IF a < MinLong + b THEN (((a + MaxLong) + 1) - b) + MaxLong + 1
                            ELSE a - b
    ELSE IF a > MaxLong + b THEN (a + MinLong) - ((b + MaxLong) + 1)
                            ELSE a - b

\* unsigned comparison a < b of two unsigned long bit patterns
ULess(a, b) == IF (a < 0) = (b < 0) THEN a < b ELSE b < 0

\* conversion of a 32-bit value to the 16-bit int (keeps the low 16 bits)
ToInt(x) ==
    LET r == x % IntModulus IN IF r >= IntHalf THEN r - IntModulus ELSE r

\* F applied to the value of x: x is evaluated once, before the call, as the
\* argument of a C function call is
Call(F(_), x) == CHOOSE r \in {F(v) : v \in {x}} : TRUE

\* C division and remainder of a by b > 0 (truncation toward zero)
CDiv(a, b) == IF a >= 0 THEN a \div b ELSE -((-a) \div b)
CMod(a, b) == a - b * CDiv(a, b)

\* ------------------------------------------------------- program constants
RealInterval == 1000
MetricInterval == 864
RealDay == 86400
MetricDay == 100000
SyncModulus == 125
SyncMinDelta == 5000
EDTOffset == -240
ESTOffset == -300
LcdWidth == 16

\* --------------------------------------------------------------- bounds
\* milliseconds of normal operation that are explored after start-up
Horizon == 2600

\* values of millis() when the start-up wait samples the GPS
StartTimes == {5000, 5001, MaxLong - 500, -1500}

\* milliseconds that pass between two iterations of loop()
Gaps == {0, 136, 864, 1000, 2500}

\* what the GPS parser can hold after the transport is drained
Reading(v, h, m, s, e) ==
    [valid |-> v, hour |-> h, minute |-> m, second |-> s, edt |-> e]

NoFix == Reading(FALSE, 0, 0, 0, FALSE)

GpsReadings ==
    { NoFix,
      Reading(TRUE, 0, 0, 0, FALSE),
      Reading(TRUE, 0, 0, 30, TRUE),
      Reading(TRUE, 3, 59, 59, TRUE),
      Reading(TRUE, 4, 0, 0, TRUE),
      Reading(TRUE, 17, 0, 1, FALSE) }

\* the readings tried in normal operation
LoopReadings ==
    { NoFix,
      Reading(TRUE, 0, 0, 30, TRUE),
      Reading(TRUE, 4, 0, 0, TRUE) }

VARIABLES
    pc,               \* "setup": in the start-up wait; "loop": normal operation
    ms,               \* millis() as last sampled
    gps,              \* the GPS parser's decoded time and validity flag
    isMidnight,       \* local of setup()
    metricTime, realTime, nextMetricTick, nextRealTick, lastSync,
    sysTime, sysEDT, prevMillis,        \* the Time library's software clock
    lcd,              \* the display, row -> column -> character
    elapsed,          \* history: milliseconds since start-up ended
    hist,             \* history: counters since the last resync
    step              \* history: what the last action did

vars == <<pc, ms, gps, isMidnight, metricTime, realTime, nextMetricTick,
          nextRealTick, lastSync, sysTime, sysEDT, prevMillis, lcd,
          elapsed, hist, step>>

\* the program state as one value, so that the functions of the program
\* compose in the order the code calls them (an action binds each
\* intermediate state with \E over a singleton set)
Cur ==
    [ms |-> ms, gps |-> gps, metricTime |-> metricTime, realTime |-> realTime,
     nextMetricTick |-> nextMetricTick, nextRealTick |-> nextRealTick,
     lastSync |-> lastSync, sysTime |-> sysTime, sysEDT |-> sysEDT,
     prevMillis |-> prevMillis, lcd |-> lcd]

Store(s) ==
    /\ ms' = s.ms
    /\ gps' = s.gps
    /\ metricTime' = s.metricTime
    /\ realTime' = s.realTime
    /\ nextMetricTick' = s.nextMetricTick
    /\ nextRealTick' = s.nextRealTick
    /\ lastSync' = s.lastSync
    /\ sysTime' = s.sysTime
    /\ sysEDT' = s.sysEDT
    /\ prevMillis' = s.prevMillis
    /\ lcd' = s.lcd

\* ----------------------------------------------------------------- display
\* position of digits on the display from most to least significant
DIGITS == <<8, 9, 11, 12, 14, 15>>
DELIMS == <<10, 13>>
DELIMETER == ":"

DigitChar(n) == <<"0", "1", "2", "3", "4", "5", "6", "7", "8", "9">>[n + 1]

\* the characters lcd.print(n) writes for a number n >= 0
RECURSIVE Decimal(_)
Decimal(n) ==
    IF n < 0 THEN <<"-">> \o Decimal(-n)
    ELSE IF n < 10 THEN <<DigitChar(n)>>
    ELSE Decimal(n \div 10) \o <<DigitChar(n % 10)>>

BlankLcd == [row \in 0..1 |-> [col \in 0..(LcdWidth - 1) |-> " "]]

\* lcd.setCursor(col, row); lcd.print(chars)
lcdPrint(l, col, row, chars) ==
    LET write(old) ==
            LET put(cs) ==
                    [old EXCEPT ![row] =
                        [c \in 0..(LcdWidth - 1) |->
                            IF c >= col /\ c < col + Len(cs)
                            THEN cs[(c - col) + 1]
                            ELSE old[row][c]]]
            IN  Call(put, chars)
    IN  Call(write, l)

\* the digit loop of updateLCD: for (byte i = 5; i != 0; i--)
\* (st holds the display l, the index i and metricTimeCopy)
RECURSIVE metricDigits(_)
metricDigits(st) ==
    IF st.i = 0 THEN st.l
    ELSE Call(metricDigits,
              [l |-> lcdPrint(st.l, DIGITS[st.i + 1], 0,
                              Decimal(CMod(st.metricTimeCopy, 10))),
               i |-> st.i - 1,
               metricTimeCopy |-> CDiv(st.metricTimeCopy, 10)])

\* if (v < 10) lcd.print("0"); lcd.print(v);
twoDigits(v) == IF v < 10 THEN <<"0">> \o Decimal(v) ELSE Decimal(v)

updateLCD(s) ==
    LET l0 == metricDigits([l |-> s.lcd, i |-> 5,
                            metricTimeCopy |-> s.metricTime])
        hours == ToInt(CDiv(s.realTime, 3600))
        l1 == lcdPrint(l0, DIGITS[1], 1, twoDigits(hours))
        minutes == ToInt(CDiv(CMod(s.realTime, 3600), 60))
        l2 == lcdPrint(l1, DIGITS[3], 1, twoDigits(minutes))
        seconds == ToInt(CMod(CMod(s.realTime, 3600), 60))
        l3 == lcdPrint(l2, DIGITS[5], 1, twoDigits(seconds))
    IN  [s EXCEPT !.lcd = l3]

\* the display as setup() leaves it before the first refresh
LabelledLcd ==
    LET a == lcdPrint(BlankLcd, 0, 0, <<"M", "e", "t", "r", "i", "c", ":">>)
        b == lcdPrint(a, DELIMS[2], 0, <<DELIMETER>>)
        c == lcdPrint(b, DELIMS[1], 0, <<DELIMETER>>)
        d == lcdPrint(c, 0, 1, <<"A", "c", "t", "u", "a", "l", ":">>)
        e == lcdPrint(d, DELIMS[2], 1, <<DELIMETER>>)
    IN  lcdPrint(e, DELIMS[1], 1, <<DELIMETER>>)

\* the display while setup() waits for the GPS
WaitingLcd ==
    LET a == lcdPrint(BlankLcd, 1, 0,
                 <<"A", "c", "q", "u", "i", "r", "i", "n", "g", " ",
                   "T", "i", "m", "e">>)
    IN  lcdPrint(a, 2, 0,
                 <<"P", "l", "e", "a", "s", "e", " ", "W", "a", "i", "t">>)

\* ----------------------------------------- Time and Timezone libraries
\* The software clock of the Time library, kept as seconds of the UTC day
\* (sysTime) and whether its date lies in the EDT part of the year (sysEDT).

\* unsigned comparison x >= k of a bit pattern x with a constant 0 < k
UGeq(x, k) == x < 0 \/ x >= k

\* now(): while (millis() - prevMillis >= 1000) { sysTime++; prevMillis += 1000; }
RECURSIVE now(_)
now(s) ==
    IF UGeq(SubUL(s.ms, s.prevMillis), 1000)
    THEN Call(now, [s EXCEPT !.sysTime = (@ + 1) % RealDay,
                             !.prevMillis = AddUL(@, 1000)])
    ELSE s

\* setTime(hr, min, sec, day, month, year)
setTime(s, hr, min, sec, inEDT) ==
    [s EXCEPT !.sysTime = (hr * 3600 + min * 60) + sec,
              !.sysEDT = inEDT,
              !.prevMillis = s.ms]

\* ET.toLocal(utc) under the rule pair EDT / EST
toLocal(utc, inEDT) ==
    (utc + RealDay + (IF inEDT THEN EDTOffset ELSE ESTOffset) * 60) % RealDay

hour(t) == t \div 3600
minute(t) == (t % 3600) \div 60
second(t) == t % 60

\* ------------------------------------------------------ program functions
getGPSTime(s) ==
    IF s.gps.valid = FALSE THEN s
    ELSE setTime(s, s.gps.hour, s.gps.minute, s.gps.second, s.gps.edt)

\* setRealTime with the hour product taken in int instead of long
setRealTime_intHour(s) ==
    LET t == now(s)
        local == toLocal(t.sysTime, t.sysEDT)
        r0 == 0
        r1 == r0 + ToInt(ToInt(hour(local)) * 3600)
        r2 == r1 + ToInt(ToInt(minute(local)) * 60)
        r3 == r2 + second(local)
    IN  [t EXCEPT !.realTime = r3,
                  !.nextRealTick = AddUL(t.ms, RealInterval)]

\* setRealTime without the reset of the real deadline
setRealTime_keepDeadline(s) ==
    LET t == now(s)
        local == toLocal(t.sysTime, t.sysEDT)
        r0 == 0
        r1 == r0 + hour(local) * 3600
        r2 == r1 + ToInt(ToInt(minute(local)) * 60)
        r3 == r2 + second(local)
    IN  [t EXCEPT !.realTime = r3]

setRealTime(s) ==
    LET t == now(s)
        local == toLocal(t.sysTime, t.sysEDT)
        r0 == 0
        r1 == r0 + hour(local) * 3600
        r2 == r1 + ToInt(ToInt(minute(local)) * 60)
        r3 == r2 + second(local)
    IN  [t EXCEPT !.realTime = r3,
                  !.nextRealTick = AddUL(t.ms, RealInterval)]

\* setMetricTime with the ratio 1000 / 864 taken first
setMetricTime_ratioFirst(s) ==
    LET m0 == s.realTime * CDiv(1000, MetricInterval)
        m1 == CMod(m0, MetricDay)
    IN  [s EXCEPT !.metricTime = m1,
                  !.nextMetricTick = AddUL(s.ms, MetricInterval)]

\* setMetricTime with the product taken in int
setMetricTime_intProduct(s) ==
    LET m0 == CDiv(ToInt(s.realTime * 1000), MetricInterval)
        m1 == CMod(m0, MetricDay)
    IN  [s EXCEPT !.metricTime = m1,
                  !.nextMetricTick = AddUL(s.ms, MetricInterval)]

setMetricTime(s) ==
    LET m0 == CDiv(s.realTime * 1000, MetricInterval)
        m1 == CMod(m0, MetricDay)
    IN  [s EXCEPT !.metricTime = m1,
                  !.nextMetricTick = AddUL(s.ms, MetricInterval)]

\* updateRealTime that also advances the metric counter
updateRealTime_both(s) ==
    Call(updateLCD, [s EXCEPT !.realTime = CMod(@ + 1, RealDay),
                              !.metricTime = CMod(@ + 1, MetricDay)])

\* updateRealTime(false): the counter moves, the display is left alone
updateRealTime_noRefresh(s) ==
    [s EXCEPT !.realTime = CMod(@ + 1, RealDay)]

updateRealTime(s) ==
    Call(updateLCD, [s EXCEPT !.realTime = CMod(@ + 1, RealDay)])

\* updateMetricTime without the rollover
updateMetricTime_noWrap(s) ==
    Call(updateLCD, [s EXCEPT !.metricTime = @ + 1])

updateMetricTime(s) ==
    Call(updateLCD, [s EXCEPT !.metricTime = CMod(@ + 1, MetricDay)])

syncGPSTime(s) ==
    Call(updateLCD, Call(setMetricTime, Call(setRealTime, Call(getGPSTime, s))))

\* ------------------------------------------------------------------- loop
\* the gate with syncDelta declared int, as the tick deltas are
shouldResync_int(s) ==
    LET syncDelta == ToInt(SubUL(s.ms, s.lastSync))
    IN  CMod(s.metricTime, SyncModulus) = 0 /\ syncDelta > SyncMinDelta

\* the gate with >= in place of >
shouldResync_geq(s) ==
    LET syncDelta == SubUL(s.ms, s.lastSync)
    IN  CMod(s.metricTime, SyncModulus) = 0 /\ syncDelta >= SyncMinDelta

\* long syncDelta = millis() - lastSync;
\* if (metricTime % 125 == 0 && syncDelta > 5000)
shouldResync(s) ==
    LET syncDelta == SubUL(s.ms, s.lastSync)
    IN  CMod(s.metricTime, SyncModulus) = 0 /\ syncDelta > SyncMinDelta

\* the due test with > in place of >=
metricTickDue_strict(s) ==
    LET metricTickDelta == ToInt(SubUL(s.ms, s.nextMetricTick))
    IN  metricTickDelta > 0

\* int metricTickDelta = millis() - nextMetricTick; if (metricTickDelta >= 0)
metricTickDue(s) ==
    LET metricTickDelta == ToInt(SubUL(s.ms, s.nextMetricTick))
    IN  metricTickDelta >= 0

\* the real due test with the subtraction reversed
realTickDue_reversed(s) == ToInt(SubUL(s.nextRealTick, s.ms)) >= 0

\* int realTickDelta = millis() - nextRealTick; if (realTickDelta >= 0)
realTickDue(s) ==
    LET realTickDelta == ToInt(SubUL(s.ms, s.nextRealTick))
    IN  realTickDelta >= 0

serviceSync(s) ==
    IF shouldResync(s) THEN Call(syncGPSTime, [s EXCEPT !.lastSync = s.ms])
                       ELSE s

\* a fixed-delay schedule: the deadline is reset to now + interval
serviceMetricTick_fixedDelay(s) ==
    IF metricTickDue(s)
    THEN Call(updateMetricTime,
              [s EXCEPT !.nextMetricTick = AddUL(s.ms, MetricInterval)])
    ELSE s

\* the metric tick serviced until the deadline is no longer due
serviceMetricTick_catchUp(s) ==
    IF metricTickDue(s)
    THEN LET s1 == Call(updateMetricTime,
                        [s EXCEPT !.nextMetricTick = AddUL(@, MetricInterval)])
         IN  IF metricTickDue(s1)
             THEN Call(updateMetricTime,
                       [s1 EXCEPT !.nextMetricTick = AddUL(@, MetricInterval)])
             ELSE s1
    ELSE s

serviceMetricTick(s) ==
    IF metricTickDue(s)
    THEN Call(updateMetricTime,
              [s EXCEPT !.nextMetricTick = AddUL(@, MetricInterval)])
    ELSE s

\* the real tick counted only while the GPS time is valid
serviceRealTick_ifValid(s) ==
    IF realTickDue(s)
    THEN IF s.gps.valid
         THEN Call(updateRealTime,
                   [s EXCEPT !.nextRealTick = AddUL(@, RealInterval)])
         ELSE [s EXCEPT !.nextRealTick = AddUL(@, RealInterval)]
    ELSE s

serviceRealTick(s) ==
    IF realTickDue(s)
    THEN Call(updateRealTime,
              [s EXCEPT !.nextRealTick = AddUL(@, RealInterval)])
    ELSE s

\* ---------------------------------------------------------------- history
Pre ==
    [metricTime |-> metricTime, realTime |-> realTime,
     nextMetricTick |-> nextMetricTick, nextRealTick |-> nextRealTick,
     lastSync |-> lastSync]

\* the history counters right after a resync that left the program in s
SyncedHist(s) ==
    [syncAt |-> s.ms, real0 |-> s.realTime, metric0 |-> s.metricTime,
     nextR0 |-> s.nextRealTick, nextM0 |-> s.nextMetricTick,
     rCount |-> 0, mCount |-> 0, timely |-> TRUE]

\* ----------------------------------------------------------------- actions
Init ==
    /\ pc = "setup"
    /\ ms = 0
    /\ gps = NoFix
    /\ isMidnight = TRUE
    /\ metricTime = 0
    /\ realTime = 0
    /\ nextMetricTick = 864
    /\ nextRealTick = 1000
    /\ lastSync = 0
    /\ sysTime = 0
    /\ sysEDT = FALSE
    /\ prevMillis = 0
    /\ lcd = WaitingLcd
    /\ elapsed = 0
    /\ hist = [syncAt |-> 0, real0 |-> 0, metric0 |-> 0, nextR0 |-> 1000,
               nextM0 |-> 864, rCount |-> 0, mCount |-> 0, timely |-> FALSE]
    /\ step = [op |-> "init", synced |-> FALSE, valid |-> FALSE,
               mtick |-> FALSE, rtick |-> FALSE,
               pre |-> [metricTime |-> 0, realTime |-> 0,
                        nextMetricTick |-> 864, nextRealTick |-> 1000,
                        lastSync |-> 0]]

\* the condition of the start-up wait
setupWaiting == gps.valid = FALSE \/ isMidnight

\* one pass of the start-up wait: the transport is drained into the parser
\* (leaving reading g) at time t, then isMidnight is recomputed
setupPoll(g, t) ==
    /\ pc = "setup"
    /\ setupWaiting
    /\ ~ULess(t, ms)
    /\ ms' = t
    /\ gps' = g
    /\ isMidnight' = (g.hour = 0 /\ g.minute = 0)
    /\ step' = [op |-> "poll", synced |-> FALSE, valid |-> gps.valid,
                mtick |-> FALSE, rtick |-> FALSE, pre |-> Pre]
    /\ UNCHANGED <<pc, metricTime, realTime, nextMetricTick, nextRealTick,
                   lastSync, sysTime, sysEDT, prevMillis, lcd, elapsed, hist>>

\* the wait is over: the display is labelled and the first resync is made
setupFinish ==
    /\ pc = "setup"
    /\ ~setupWaiting
    /\ \E s \in {syncGPSTime([Cur EXCEPT !.lcd = LabelledLcd])} :
           /\ Store(s)
           /\ hist' = SyncedHist(s)
    /\ pc' = "loop"
    /\ elapsed' = 0
    /\ step' = [op |-> "setup", synced |-> TRUE, valid |-> gps.valid,
                mtick |-> FALSE, rtick |-> FALSE, pre |-> Pre]
    /\ UNCHANGED isMidnight

\* one iteration of loop(), d milliseconds after the previous one; the
\* transport drain leaves reading g in the parser
loop(d, g) ==
    /\ pc = "loop"
    /\ \E s0 \in {[Cur EXCEPT !.ms = AddUL(ms, d), !.gps = g]} :
       \E s1 \in {serviceSync(s0)} :
       \E s2 \in {serviceMetricTick(s1)} :
       \E s3 \in {serviceRealTick(s2)} :
         LET synced == shouldResync(s0)
             mtick == metricTickDue(s1)
             rtick == realTickDue(s2)
             h == IF synced THEN SyncedHist(s1)
                            ELSE [hist EXCEPT !.timely = @ /\ d <= 1]
         IN  /\ Store(s3)
             /\ hist' = [h EXCEPT !.mCount = @ + (IF mtick THEN 1 ELSE 0),
                                  !.rCount = @ + (IF rtick THEN 1 ELSE 0)]
             /\ step' = [op |-> "loop", synced |-> synced, valid |-> g.valid,
                         mtick |-> mtick, rtick |-> rtick, pre |-> Pre]
    /\ elapsed' = elapsed + d
    /\ UNCHANGED <<pc, isMidnight>>

Next ==
    \/ \E g \in GpsReadings, t \in StartTimes : setupPoll(g, t)
    \/ setupFinish
    \/ \E d \in Gaps, g \in LoopReadings :
            elapsed + d <= Horizon /\ loop(d, g)

Spec == Init /\ [][Next]_vars

\* ------------------------------------------- resync over every instant
\* Every time of day the GPS can report, each taken through the first
\* resync of setup().
AllReadings ==
    { Reading(TRUE, h, m, s, e) :
        h \in 0..23, m \in 0..59, s \in 0..59, e \in BOOLEAN }

InitInstants ==
    /\ pc = "setup"
    /\ ms = 5001
    /\ gps \in AllReadings
    /\ isMidnight = (gps.hour = 0 /\ gps.minute = 0)
    /\ metricTime = 0
    /\ realTime = 0
    /\ nextMetricTick = 864
    /\ nextRealTick = 1000
    /\ lastSync = 0
    /\ sysTime = 0
    /\ sysEDT = FALSE
    /\ prevMillis = 0
    /\ lcd = WaitingLcd
    /\ elapsed = 0
    /\ hist = [syncAt |-> 0, real0 |-> 0, metric0 |-> 0, nextR0 |-> 1000,
               nextM0 |-> 864, rCount |-> 0, mCount |-> 0, timely |-> FALSE]
    /\ step = [op |-> "poll", synced |-> FALSE, valid |-> FALSE,
               mtick |-> FALSE, rtick |-> FALSE,
               pre |-> [metricTime |-> 0, realTime |-> 0,
                        nextMetricTick |-> 864, nextRealTick |-> 1000,
                        lastSync |-> 0]]

SpecInstants == InitInstants /\ [][setupFinish]_vars

\* the local instant the last resync converted
LocalInstant == toLocal(sysTime, sysEDT)

\* C1: a resync leaves RealTime = hour*3600 + minute*60 + second of the
\* local instant and MetricTime = floor(RealTime*1000/864) mod 100000; the
\* instant 00:00:00 gives 0 and 0, the instant 23:59:59 gives 86399 and 99998.
C1_ResyncValues ==
    step.synced =>
        LET h == hour(LocalInstant)
            m == minute(LocalInstant)
            s == second(LocalInstant)
        IN  /\ realTime = (h * 3600 + m * 60) + s
            /\ metricTime = ((realTime * 1000) \div 864) % 100000
            /\ (h = 0 /\ m = 0 /\ s = 0) => (realTime = 0 /\ metricTime = 0)
            /\ (h = 23 /\ m = 59 /\ s = 59) =>
                   (realTime = 86399 /\ metricTime = 99998)

C1_Witness ==
    /\ step.op = "setup"
    /\ step.synced
    /\ hour(LocalInstant) = 23 /\ minute(LocalInstant) = 59
    /\ second(LocalInstant) = 59
    /\ realTime = 86399
    /\ metricTime = 99998

\* ------------------------------------------------------ counters and ticks
\* C2: in every reachable state 0 <= RealTime < 86400 and
\* 0 <= MetricTime < 100000; a tick at the top value wraps the counter to 0.
C2_InRange ==
    /\ realTime >= 0 /\ realTime < 86400
    /\ metricTime >= 0 /\ metricTime < 100000
    /\ (step.rtick /\ ~step.synced /\ step.pre.realTime = 86399)
           => realTime = 0
    /\ (step.mtick /\ ~step.synced /\ step.pre.metricTime = 99999)
           => metricTime = 0

C2_Witness ==
    /\ step.op = "loop"
    /\ step.mtick /\ step.pre.metricTime = 99999 /\ metricTime = 0
    /\ step.rtick /\ realTime = 0

\* C3: with no resync in between, n real ticks add n to RealTime modulo
\* 86400 and n metric ticks add n to MetricTime modulo 100000, whatever the
\* ticks of the other clock; from 0 the counters are n mod 86400 and
\* n mod 100000.
C3_TickCounts ==
    pc = "loop" =>
        /\ realTime = (hist.real0 + hist.rCount) % 86400
        /\ metricTime = (hist.metric0 + hist.mCount) % 100000
        /\ hist.real0 = 0 => realTime = hist.rCount % 86400
        /\ hist.metric0 = 0 => metricTime = hist.mCount % 100000

C3_Witness ==
    /\ pc = "loop"
    /\ hist.real0 = 0 /\ hist.metric0 = 0
    /\ hist.rCount = 2 /\ hist.mCount = 3
    /\ realTime = 2 /\ metricTime = 3

\* C4: an iteration of loop() performs a resync if and only if MetricTime
\* mod 125 = 0 and now - lastSync > 5000, the difference being taken modulo
\* 2^32 and read as a signed long; a difference of exactly 5000 does not
\* resync.
C4_ResyncGate ==
    step.op = "loop" =>
        /\ step.synced <=>
              (/\ step.pre.metricTime % 125 = 0
               /\ SubUL(ms, step.pre.lastSync) > 5000)
        /\ SubUL(ms, step.pre.lastSync) = 5000 => ~step.synced

C4_Witness ==
    /\ step.op = "loop"
    /\ step.synced
    /\ step.pre.metricTime % 125 = 0
    /\ SubUL(ms, step.pre.lastSync) = 5001

\* C5: a tick that fires advances its deadline by exactly the interval, so
\* after k services since the last resync the deadline is the one the
\* resync set plus k intervals (modulo 2^32), however late each service was.
C5_FixedRate ==
    pc = "loop" =>
        /\ nextMetricTick = AddUL(hist.nextM0, hist.mCount * 864)
        /\ nextRealTick = AddUL(hist.nextR0, hist.rCount * 1000)
        /\ (step.mtick /\ ~step.synced) =>
               nextMetricTick = AddUL(step.pre.nextMetricTick, 864)
        /\ (step.rtick /\ ~step.synced) =>
               nextRealTick = AddUL(step.pre.nextRealTick, 1000)

\* a metric tick and a real tick both serviced late, the second metric one
C5_Witness ==
    /\ step.op = "loop"
    /\ step.mtick /\ SubUL(ms, step.pre.nextMetricTick) > 0
    /\ step.rtick /\ SubUL(ms, step.pre.nextRealTick) > 0
    /\ hist.mCount = 2
    /\ nextMetricTick = AddUL(hist.nextM0, 1728)

\* ------------------------------------------------------- invalid GPS time
\* C8: when the validity flag is false as the resync gate fires, RealTime,
\* MetricTime, nextRealTick and nextMetricTick are the same after the
\* attempted resync as before it.
C8_InvalidIsNoOp ==
    (step.op = "loop" /\ step.synced /\ ~step.valid) =>
        /\ realTime = step.pre.realTime
        /\ metricTime = step.pre.metricTime
        /\ nextRealTick = step.pre.nextRealTick
        /\ nextMetricTick = step.pre.nextMetricTick

\* ------------------------------------------------------------ the due test
\* A run in which loop() can be held up for StallMs milliseconds between
\* two iterations (the display and the GPS transport are blocking calls).
StallMs == 33700
StallHorizon == 35000
StallGaps == {0, 8640, StallMs}

NextStall ==
    \/ \E g \in GpsReadings, t \in StartTimes : setupPoll(g, t)
    \/ setupFinish
    \/ \E d \in StallGaps, g \in LoopReadings :
            elapsed + d <= StallHorizon /\ loop(d, g)

SpecStall == Init /\ [][NextStall]_vars

\* C6: each tick schedule is found due exactly when now - next, taken
\* modulo 2^32 and read as a signed 32-bit value, is >= 0.
C6_DueTest ==
    (step.op = "loop" /\ ~step.synced) =>
        /\ step.mtick <=> SubUL(ms, step.pre.nextMetricTick) >= 0
        /\ step.rtick <=> SubUL(ms, step.pre.nextRealTick) >= 0

\* ------------------------------------------------------------- end to end
\* A run in which loop() iterates at least once per millisecond.
TimelyHorizon == 1750
TimelyGaps == {0, 1}
TimelyReadings == {NoFix, Reading(TRUE, 4, 0, 0, TRUE)}

NextTimely ==
    \/ \E g \in GpsReadings, t \in StartTimes : setupPoll(g, t)
    \/ setupFinish
    \/ \E d \in TimelyGaps, g \in TimelyReadings :
            elapsed + d <= TimelyHorizon /\ loop(d, g)

SpecTimely == Init /\ [][NextTimely]_vars

\* milliseconds since the last resync
SinceSync == SubUL(ms, hist.syncAt)

\* C7: when loop() has run at least once per millisecond since a resync at
\* t0, then at time t0 + d the metric ticks fired number floor(d / 864) and
\* the real ticks floor(d / 1000); after a resync to RealTime = 0, at
\* t0 + 864 MetricTime = 1 and RealTime = 0.
C7_EndToEnd ==
    (pc = "loop" /\ hist.timely) =>
        /\ hist.mCount = SinceSync \div 864
        /\ hist.rCount = SinceSync \div 1000
        /\ (hist.real0 = 0 /\ SinceSync = 864) =>
               (metricTime = 1 /\ realTime = 0)

C7_Witness ==
    /\ pc = "loop"
    /\ hist.timely
    /\ hist.real0 = 0
    /\ SinceSync = 864
    /\ hist.mCount = 1 /\ hist.rCount = 0
    /\ metricTime = 1 /\ realTime = 0

\* ---------------------------------------------------------------- progress
\* Normal operation under the scheduling of the Arduino runtime: loop() is
\* called again and again and millis() keeps advancing, so an iteration that
\* finds the counter advanced is always eventually taken.
TickHorizon == 9000
TickSlack == 4400
TickGaps == {0, 864}
TickReadings == {NoFix, Reading(TRUE, 4, 0, 0, TRUE)}

TickAdvance ==
    \E d \in TickGaps \ {0}, g \in TickReadings :
        elapsed + d <= TickHorizon /\ loop(d, g)

NextTicking ==
    \/ \E g \in GpsReadings, t \in StartTimes : setupPoll(g, t)
    \/ setupFinish
    \/ \E d \in TickGaps, g \in TickReadings :
            elapsed + d <= TickHorizon /\ loop(d, g)

SpecTicking == Init /\ [][NextTicking]_vars /\ WF_vars(TickAdvance)

\* some iteration of loop() can be taken
LoopStep == \E d \in TickGaps, g \in TickReadings : loop(d, g)

\* C9: in normal operation an iteration of loop() can always be taken, and
\* whatever the validity flag of the GPS does, each clock ticks again: from
\* every state at least TickSlack ms before the end of the explored run an
\* iteration that increments MetricTime follows, and one that increments
\* RealTime follows.
C9_TicksNeverBlock ==
    /\ [](pc = "loop" => ENABLED LoopStep)
    /\ (pc = "loop" /\ elapsed <= TickHorizon - TickSlack /\ ~step.mtick)
           ~> (/\ step.op = "loop" /\ step.mtick
               /\ metricTime = (step.pre.metricTime + 1) % MetricDay)
    /\ (pc = "loop" /\ elapsed <= TickHorizon - TickSlack /\ ~step.rtick)
           ~> (/\ step.op = "loop" /\ step.rtick
               /\ realTime = (step.pre.realTime + 1) % RealDay)

\* both clocks tick in an iteration that finds the GPS time invalid
C9_Witness ==
    /\ step.op = "loop"
    /\ ~step.valid
    /\ step.mtick /\ step.rtick
    /\ metricTime = (step.pre.metricTime + 1) % MetricDay
    /\ realTime = (step.pre.realTime + 1) % RealDay
    /\ elapsed > TickHorizon - TickSlack

\* The same scheduling, explored long enough for MetricTime to pass from any
\* value to the next multiple of 125.
LiveHorizon == 115000
SyncSlack == 112000
LiveGaps == {0, 864}
LiveStarts == {5001, -1500}
LiveReadings == {NoFix, Reading(TRUE, 17, 0, 1, FALSE)}

Advance ==
    \E d \in LiveGaps \ {0}, g \in LiveReadings :
        elapsed + d <= LiveHorizon /\ loop(d, g)

NextLive ==
    \/ \E g \in GpsReadings, t \in LiveStarts : setupPoll(g, t)
    \/ setupFinish
    \/ \E d \in LiveGaps, g \in LiveReadings :
            elapsed + d <= LiveHorizon /\ loop(d, g)

SpecLive == Init /\ [][NextLive]_vars /\ WF_vars(Advance)

\* C10: resynchronization recurs whatever the time source supplies: from
\* every state of normal operation at least SyncSlack ms before the end of
\* the explored run in which the last action was not a resync, an iteration
\* of loop() that resyncs follows.
C10_ResyncRecurs ==
    (pc = "loop" /\ elapsed <= LiveHorizon - SyncSlack /\ ~step.synced)
        ~> (step.op = "loop" /\ step.synced)

\* a resync of loop() more than 100 s after the previous one
C10_Witness ==
    /\ step.op = "loop"
    /\ step.synced
    /\ SubUL(ms, step.pre.lastSync) > 100000
    /\ step.pre.lastSync # 0

\* ------------------------------------------------------- display refresh
\* the characters lcd.print writes for a decimal digit
DigitChars == {DigitChar(n) : n \in 0..9}

\* the last action refreshed the display: a resync or a tick
Refreshed ==
    /\ step.op \in {"setup", "loop"}
    /\ step.synced \/ step.mtick \/ step.rtick

\* C11: after every tick and every resync all six digit positions of the
\* metric row (columns 8, 9, 11, 12, 14, 15 of row 0) and all six digit
\* positions of the real-time row (row 1) have been written with a digit.
C11_FullRefresh ==
    Refreshed =>
        \A i \in 1..6 :
            /\ lcd[0][DIGITS[i]] \in DigitChars
            /\ lcd[1][DIGITS[i]] \in DigitChars

\* ---------------------------------------------------------- start-up wait
\* C12: after a pass of the start-up wait, the wait is over exactly when
\* the GPS time is valid and is not 00:00:00.
C12_WaitEnds ==
    (pc = "setup" /\ step.op = "poll") =>
        (~setupWaiting <=>
            (gps.valid /\ ~(gps.hour = 0 /\ gps.minute = 0 /\ gps.second = 0)))

\* ------------------------------------------------- one iteration of loop()
\* 1 if the flag is set, else 0
Bit(b) == IF b THEN 1 ELSE 0

\* C13: one iteration of loop() services at most one resync, then at most
\* one metric tick, then at most one real tick: without a resync each
\* counter and each deadline moves by at most one tick from its value before
\* the iteration, however late the deadline is; with a resync the deadlines
\* are the ones the resync set, moved by at most one tick.
C13_OneEachInOrder ==
    (step.op = "loop") =>
        /\ ~step.synced =>
            /\ lastSync = step.pre.lastSync
            /\ metricTime = (step.pre.metricTime + Bit(step.mtick)) % MetricDay
            /\ realTime = (step.pre.realTime + Bit(step.rtick)) % RealDay
            /\ nextMetricTick = AddUL(step.pre.nextMetricTick,
                                      MetricInterval * Bit(step.mtick))
            /\ nextRealTick = AddUL(step.pre.nextRealTick,
                                    RealInterval * Bit(step.rtick))
        /\ step.synced =>
            /\ lastSync = ms
            /\ nextMetricTick = AddUL(ms, MetricInterval * (1 + Bit(step.mtick)))
            /\ nextRealTick = AddUL(ms, RealInterval * (1 + Bit(step.rtick)))
            /\ hist.mCount = Bit(step.mtick)
            /\ hist.rCount = Bit(step.rtick)

\* both deadlines are due in one iteration, the real one being the older,
\* and each clock ticks once
C13_Witness ==
    /\ step.op = "loop"
    /\ ~step.synced
    /\ step.mtick /\ step.rtick
    /\ SubUL(step.pre.nextMetricTick, step.pre.nextRealTick) > 0
    /\ SubUL(ms, step.pre.nextRealTick) > 0
    /\ hist.mCount = 2

\* ------------------------------------------------------- resync spacing
\* C14: a resync of loop() comes more than SyncMinDelta ms after the resync
\* before it, the resync of setup() included: more than SyncMinDelta ms
\* after start-up ended, and more than SyncMinDelta ms after the value of
\* millis() that the previous resync of loop() recorded.
C14_ResyncSpacing ==
    (step.op = "loop" /\ step.synced) =>
        /\ elapsed > SyncMinDelta
        /\ SubUL(ms, step.pre.lastSync) > SyncMinDelta

\* ------------------------------------------------- deadlines after a resync
\* C15: a resync made at millis() = ms leaves nextRealTick = ms + 1000 and
\* nextMetricTick = ms + 864 whatever the deadlines were before, no tick
\* fires in the iteration that resyncs, and afterwards the k-th tick of a
\* clock since the resync fires no earlier than k intervals after it.
C15_DeadlinesReset ==
    /\ (step.op \in {"setup", "loop"} /\ step.synced) =>
            /\ nextRealTick = AddUL(ms, RealInterval)
            /\ nextMetricTick = AddUL(ms, MetricInterval)
            /\ ~step.mtick /\ ~step.rtick
    /\ (step.op = "loop" /\ step.mtick) =>
            SinceSync >= MetricInterval * hist.mCount
    /\ (step.op = "loop" /\ step.rtick) =>
            SinceSync >= RealInterval * hist.rCount

\* a resync of loop() that discards a real tick that was overdue and a
\* metric tick that was pending
C15_Witness ==
    /\ step.op = "loop"
    /\ step.synced
    /\ SubUL(ms, step.pre.nextRealTick) >= 0
    /\ SubUL(step.pre.nextMetricTick, ms) > 0
    /\ nextRealTick = AddUL(ms, RealInterval)
    /\ realTime = step.pre.realTime

\* ----------------------------------------------------- GPS field accessors
\* The last action called a field accessor of the GPS time: a pass of the
\* start-up wait calls hour() and minute() on the reading it has just
\* drained, whatever its validity flag; a resync calls them in getGPSTime(),
\* which returns before them when the flag is false.
FieldsRead ==
    \/ step.op = "poll"
    \/ step.op \in {"setup", "loop"} /\ step.synced /\ gps.valid

\* C16: a field accessor is called only on a reading whose validity flag
\* is true.
C16_FieldsOnlyWhenValid == FieldsRead => gps.valid

\* ------------------------------------------------------------- alignment
\* C17: after a resync RealTime is a multiple of 108 exactly when
\* MetricTime is a multiple of 125; then RealTime * 1000 is divisible by
\* 864, MetricTime = (RealTime / 108) * 125, and MetricTime * 864 / 1000 is
\* the whole number of seconds RealTime.
C17_AlignmentExact ==
    (step.op = "setup") =>
        /\ (realTime % 108 = 0) <=> (metricTime % SyncModulus = 0)
        /\ (realTime % 108 = 0) =>
                /\ (realTime * 1000) % MetricInterval = 0
                /\ metricTime = (realTime \div 108) * SyncModulus
        /\ (metricTime % SyncModulus = 0) =>
                /\ (metricTime * MetricInterval) % 1000 = 0
                /\ (metricTime * MetricInterval) \div 1000 = realTime

\* the largest aligned pair: 23:58:12 is 799 * 108 s and 799 * 125 units
C17_Witness ==
    /\ step.op = "setup"
    /\ realTime = 86292
    /\ metricTime = 99875

\* ---------------------------------------------------- display consistency
\* the decimal digit of n with weight 10^k
DigitOf(n, k) == DigitChar((n \div (10 ^ k)) % 10)

\* C18: in normal operation the display shows the state: row 0 columns 9,
\* 11, 12, 14, 15 hold the five decimal digits of MetricTime, most
\* significant first, and row 1 columns 8-9, 11-12, 14-15 hold the
\* zero-padded hours, minutes and seconds of RealTime.
C18_DisplayConsistent ==
    (pc = "loop") =>
        /\ \A i \in 2..6 : lcd[0][DIGITS[i]] = DigitOf(metricTime, 6 - i)
        /\ lcd[1][DIGITS[1]] = DigitOf(realTime \div 3600, 1)
        /\ lcd[1][DIGITS[2]] = DigitOf(realTime \div 3600, 0)
        /\ lcd[1][DIGITS[3]] = DigitOf((realTime % 3600) \div 60, 1)
        /\ lcd[1][DIGITS[4]] = DigitOf((realTime % 3600) \div 60, 0)
        /\ lcd[1][DIGITS[5]] = DigitOf(realTime % 60, 1)
        /\ lcd[1][DIGITS[6]] = DigitOf(realTime % 60, 0)

\* both clocks have ticked in one iteration, away from a resync, at a time
\* of day whose leading digits are not zero
C18_Witness ==
    /\ step.op = "loop"
    /\ ~step.synced
    /\ step.mtick /\ step.rtick
    /\ metricTime > 50000
    /\ realTime > 43200
    /\ lcd[0][9] = "5"
    /\ lcd[1][8] = "1"

\* ---------------------------------------------------------- deadline bound
\* C19: after the resync of setup() neither deadline lies more than one
\* interval ahead of millis(): nextMetricTick - ms <= 864 and
\* nextRealTick - ms <= 1000 as signed differences modulo 2^32.
C19_DeadlineBound ==
    (pc = "loop") =>
        /\ SubUL(nextMetricTick, ms) <= MetricInterval
        /\ SubUL(nextRealTick, ms) <= RealInterval

\* a metric tick fires exactly on time, which puts its deadline a full
\* interval ahead, the deadline having passed the top of the signed range
\* (or of the counter) that millis() has not passed yet
C19_Witness ==
    /\ step.op = "loop"
    /\ ~step.synced
    /\ step.mtick
    /\ SubUL(nextMetricTick, ms) = MetricInterval
    /\ ms < 0 /\ nextMetricTick >= 0

\* ------------------------------------------------------ arithmetic widths
\* C20: for the local instant a resync converts, the products hour * 3600
\* and RealTime * 1000 lie in the range of a 32-bit long, the product
\* minute * 60 lies in the range of a 16-bit int and is unchanged by the
\* conversion to int, and the stored RealTime and MetricTime are the exact
\* results hour * 3600 + minute * 60 + second and
\* floor(RealTime * 1000 / 864) mod 100000.
C20_NoOverflow ==
    (step.op = "setup") =>
        LET h == hour(LocalInstant)
            m == minute(LocalInstant)
            sec == second(LocalInstant)
            exact == (h * 3600 + m * 60) + sec
        IN  /\ h * 3600 >= MinLong /\ h * 3600 <= MaxLong
            /\ exact * 1000 >= MinLong /\ exact * 1000 <= 86399000
            /\ 86399000 <= MaxLong
            /\ m * 60 < IntHalf /\ m * 60 <= 3540
            /\ ToInt(m * 60) = m * 60
            /\ realTime = exact
            /\ metricTime = ((exact * 1000) \div MetricInterval) % MetricDay

\* the instant 23:59:59, whose products are the largest: 82800 and
\* 86399000 are beyond the range of an int, 3540 is inside it
C20_Witness ==
    /\ step.op = "setup"
    /\ hour(LocalInstant) * 3600 = 82800
    /\ minute(LocalInstant) * 60 = 3540
    /\ realTime * 1000 = 86399000
    /\ hour(LocalInstant) * 3600 >= IntHalf
    /\ metricTime = 99998

====
